---- MODULE Spec2Model ----
(***************************************************************************)
(* Model of packages/ai/src/providers/openai-websocket.ts: the session     *)
(* WebSocket pool (acquireWebSocket, its release closures and the idle     *)
(* expiry timers), the event stream decoder (parseWebSocket) and the race   *)
(* that settles one connection attempt (connectWebSocket).                 *)
(*                                                                         *)
(* Every acquireWebSocket call that connects constructs exactly one        *)
(* socket, and every cache entry is created by exactly one call around the *)
(* socket that call opened.  A call, the socket it constructed and the     *)
(* entry it created therefore share one identity, a number in Calls.       *)
(***************************************************************************)
EXTENDS Integers, Sequences, FiniteSets, TLC

\* ------------------------------------------------------------------ bounds
MaxCalls == 3
\* Message events dispatched to one parseWebSocket invocation.
MaxFrames == 2

Calls == 1..MaxCalls

\* ------------------------------------------------------- program constants
\* Map.get(sessionId) of an absent key; also "no socket / no entry".
NoEntry == 0
\* getWebSocketReadyState: readyState is not a number.
Undef == -1
\* WebSocket.OPEN, the only numeric readyState isWebSocketReusable accepts.
OPEN == 1
CONNECTING == 0
CLOSING == 2
CLOSED == 3

Sessions == {"s1"}
\* sessionId undefined (or the empty string): !sessionId holds.
NoSession == "none"
\* The keep hint of release(options): {keep:true}, {keep:false}, omitted.
KeepOpts == {"true", "false", "omitted"}

VARIABLES
    cache,       \* websocketSessionCache: session id -> entry (NoEntry if absent)
    busy,        \* entry.busy
    idleTimer,   \* entry.idleTimer holds a timer handle (truthy)
    timerLive,   \* the setTimeout armed for the entry has neither fired nor been cleared
    readyState,  \* socket.readyState (Undef when the transport exposes none)
    closed,      \* socket.close() has been called by the pool
    pc,          \* per call: "new", "connecting", "held", "released", "failed"
    callSid,     \* per call: the sessionId argument
    branch,      \* per call: which return site built its handle
    sock,        \* per call: the socket of its handle (NoEntry before it has one)
    exposesReadyState, \* the runtime's WebSocket class has a numeric readyState
    lastKept,    \* history: per session, the entry last released-and-kept, until
                 \* its expiry timer fires or the session is acquired again
    lastOp,      \* history: the operation that produced this state, with what the
                 \* claims about acquire, release and timer steps read of it
    \* ---- parseWebSocket(socket, signal), one invocation
    frames,      \* the message events dispatched to onMessage, in arrival order
    inflight,    \* frames whose onMessage is suspended at await decodeWebSocketData
    queue,       \* queue (frames by arrival index)
    yielded,     \* what the generator has yielded so far, in order
    pending,     \* pending holds a resolver
    woken,       \* wake() resolved the awaited promise; the loop has not resumed yet
    done,
    failed,      \* "none", or which handler captured the failure
    sawCompletion,
    gen,         \* "start", "awaiting", "yielded", "ended", "threw", "returned"
    thrown,      \* the error the generator threw, "none" otherwise
    listening,   \* the four listeners are registered
    aborted,     \* signal.aborted
    errorSeen,   \* an error event was dispatched
    closeSeen,   \* a close event was dispatched
    closedUnfinished,  \* history: onClose ran while sawCompletion was false
    bufferedAtFailure, \* history: the frames in queue when failed was last assigned
    \* ---- connectWebSocket(url, headers, signal), one invocation
    connCtor,      \* getWebSocketConstructor(): "missing", or a class whose
                   \* constructor "throws", or one that is "ok"
    connSignal,    \* the signal argument: "none", "live", "aborted"
    closeThrows,   \* socket.close() of this transport throws
    promise,       \* "notCalled", "pending", "resolved", "rejected"
    rejection,     \* the error the promise rejected with, "none" otherwise
    settled,
    connListening, \* the listeners of lines 162-165 are registered
    closeCalled,   \* socket.close(1000, "aborted") was called
    uncaught,      \* an exception left a listener
    fired,         \* history: the events dispatched since the call
    firstEvent     \* history: the first of them

poolVars == <<cache, busy, idleTimer, timerLive, readyState, closed, pc, callSid,
              branch, sock, exposesReadyState, lastKept, lastOp>>

parseVars == <<frames, inflight, queue, yielded, pending, woken, done, failed,
               sawCompletion, gen, thrown, listening, aborted, errorSeen, closeSeen,
               closedUnfinished, bufferedAtFailure>>

connVars == <<connCtor, connSignal, closeThrows, promise, rejection, settled,
              connListening, closeCalled, uncaught, fired, firstEvent>>

vars == <<poolVars, parseVars, connVars>>

\* ------------------------------------------------------------------ helpers
\* isWebSocketReusable(socket), on the socket's readyState.
isWebSocketReusable(rs) == rs = Undef \/ rs = OPEN

\* What socket.close() does to the readyState of a transport that has one.
SocketCloseState(rs) == IF rs = Undef THEN Undef ELSE IF rs = CLOSED THEN CLOSED ELSE CLOSING

\* closeWebSocketSilently(socket): close() is called, a throw is swallowed.
closeWebSocketSilently(cl, s) == [cl EXCEPT ![s] = TRUE]

\* websocketSessionCache.delete(sessionId)
CacheDelete(ch, sid) == [ch EXCEPT ![sid] = NoEntry]

\* Line 195: !cached.busy && isWebSocketReusable(cached.socket)
CanReuseNoBusyCheck(e) == isWebSocketReusable(readyState[e])
CanReuse(e) == ~busy[e] /\ isWebSocketReusable(readyState[e])

\* Lines 200 and 231: !keep || !isWebSocketReusable(socket)
ReleaseClosesDefaultKeep(keep, rs) == keep = "false" \/ ~isWebSocketReusable(rs)
ReleaseClosesIgnoreState(keep, rs) == keep # "true"
ReleaseCloses(keep, rs) == keep # "true" \/ ~isWebSocketReusable(rs)

\* Lines 179-185: the release of a handle acquired without a session id
\* closes the socket on both paths of its if.
NoSessionReleaseClosesOnlyOnFalse(keep) == keep = "false"
NoSessionReleaseCloses(keep) == keep = "false" \/ keep # "false"

Op(op, c, sid, keep, rs, kept, evicted, closedSock) ==
    [op |-> op, call |-> c, sid |-> sid, keep |-> keep, rs |-> rs, kept |-> kept,
     evicted |-> evicted, closedSock |-> closedSock]

Held(c) == pc[c] = "held"

\* What no operation of the pool changes.
PoolFrame == UNCHANGED <<exposesReadyState, parseVars, connVars>>

\* --------------------------------------------------------------------- Init
\* parseWebSocket has been called and has not run yet (lines 270-274).
ParserInit ==
    /\ frames = <<>>
    /\ inflight = {}
    /\ queue = <<>>
    /\ yielded = <<>>
    /\ pending = FALSE
    /\ woken = FALSE
    /\ done = FALSE
    /\ failed = "none"
    /\ sawCompletion = FALSE
    /\ gen = "start"
    /\ thrown = "none"
    /\ listening = FALSE
    /\ aborted = FALSE
    /\ errorSeen = FALSE
    /\ closeSeen = FALSE
    /\ closedUnfinished = FALSE
    /\ bufferedAtFailure = {}

PoolInit ==
    /\ cache = [s \in Sessions |-> NoEntry]
    /\ busy = [e \in Calls |-> FALSE]
    /\ idleTimer = [e \in Calls |-> FALSE]
    /\ timerLive = [e \in Calls |-> FALSE]
    /\ readyState = [e \in Calls |-> Undef]
    /\ closed = [e \in Calls |-> FALSE]
    /\ pc = [c \in Calls |-> "new"]
    /\ callSid = [c \in Calls |-> NoSession]
    /\ branch = [c \in Calls |-> "none"]
    /\ sock = [c \in Calls |-> NoEntry]
    /\ lastKept = [s \in Sessions |-> NoEntry]
    /\ lastOp = Op("init", 0, NoSession, "omitted", Undef, NoEntry, NoEntry, NoEntry)

\* connectWebSocket has not been called (lines 119-120 not reached).
ConnStart ==
    /\ promise = "notCalled"
    /\ rejection = "none"
    /\ settled = FALSE
    /\ connListening = FALSE
    /\ closeCalled = FALSE
    /\ uncaught = FALSE
    /\ fired = {}
    /\ firstEvent = "none"

\* The pool and the decoder are followed for one runtime with a WebSocket
\* class, no signal, and a transport whose close() returns.
ConnIdle ==
    /\ ConnStart
    /\ connCtor = "ok"
    /\ connSignal = "none"
    /\ closeThrows = FALSE

Init ==
    /\ PoolInit
    /\ exposesReadyState \in BOOLEAN
    /\ ParserInit
    /\ ConnIdle

\* parseWebSocket never looks at the pool: one runtime is enough.
ParseInit ==
    /\ PoolInit
    /\ exposesReadyState = TRUE
    /\ ParserInit
    /\ ConnIdle

\* ----------------------------------------------------- connection set-up
\* connectWebSocket up to its promise: new WebSocketCtor(url, {headers}) builds
\* socket c.  Every socket is built by the one constructor the runtime has
\* (getWebSocketConstructor), which either exposes a numeric readyState or not.
SocketStateAtConstruction == IF exposesReadyState THEN CONNECTING ELSE Undef

\* The entry last released with keep:true under sid whose expiry timer has not
\* fired, if its transport is still reusable now (history, read by lastOp).
KeptFor(sid) ==
    IF sid \in Sessions /\ lastKept[sid] # NoEntry
          /\ isWebSocketReusable(readyState[lastKept[sid]])
    THEN lastKept[sid] ELSE NoEntry

NextNew(c) == pc[c] = "new" /\ \A d \in Calls : d < c => pc[d] # "new"

\* acquireWebSocket(url, headers, undefined, signal), lines 175-176: no cache
\* access, straight to connectWebSocket.
AcquireNoSession(c) ==
    /\ PoolFrame
    /\ NextNew(c)
    /\ readyState' = [readyState EXCEPT ![c] = SocketStateAtConstruction]
    /\ pc' = [pc EXCEPT ![c] = "connecting"]
    /\ callSid' = [callSid EXCEPT ![c] = NoSession]
    /\ branch' = [branch EXCEPT ![c] = "nosession"]
    /\ lastOp' = Op("acquire", c, NoSession, "omitted", Undef, NoEntry, NoEntry, NoEntry)
    /\ UNCHANGED <<cache, busy, idleTimer, timerLive, closed, sock, lastKept>>

\* Lines 189-209: a cached entry that is idle and reusable is marked busy and
\* handed out; its idle timer is cleared on lookup.
AcquireReuse(c, sid) ==
    /\ PoolFrame
    /\ NextNew(c)
    /\ cache[sid] # NoEntry
    /\ CanReuse(cache[sid])
    /\ LET cached == cache[sid] IN
          /\ idleTimer' = [idleTimer EXCEPT ![cached] = FALSE]
          /\ timerLive' = [timerLive EXCEPT ![cached] = FALSE]
          /\ busy' = [busy EXCEPT ![cached] = TRUE]
          /\ sock' = [sock EXCEPT ![c] = cached]
    /\ pc' = [pc EXCEPT ![c] = "held"]
    /\ callSid' = [callSid EXCEPT ![c] = sid]
    /\ branch' = [branch EXCEPT ![c] = "reuse"]
    /\ lastKept' = [lastKept EXCEPT ![sid] = NoEntry]
    /\ lastOp' = Op("acquire", c, sid, "omitted", Undef, KeptFor(sid), NoEntry, NoEntry)
    /\ UNCHANGED <<cache, readyState, closed>>

\* Lines 189-194, 210-211: the cached entry is busy; connect an unpooled socket.
AcquireOverflow(c, sid) ==
    /\ PoolFrame
    /\ NextNew(c)
    /\ cache[sid] # NoEntry
    /\ ~CanReuse(cache[sid])
    /\ busy[cache[sid]]
    /\ LET cached == cache[sid] IN
          /\ idleTimer' = [idleTimer EXCEPT ![cached] = FALSE]
          /\ timerLive' = [timerLive EXCEPT ![cached] = FALSE]
    /\ readyState' = [readyState EXCEPT ![c] = SocketStateAtConstruction]
    /\ pc' = [pc EXCEPT ![c] = "connecting"]
    /\ callSid' = [callSid EXCEPT ![c] = sid]
    /\ branch' = [branch EXCEPT ![c] = "overflow"]
    /\ lastKept' = [lastKept EXCEPT ![sid] = NoEntry]
    /\ lastOp' = Op("acquire", c, sid, "omitted", Undef, KeptFor(sid), NoEntry, NoEntry)
    /\ UNCHANGED <<cache, busy, closed, sock>>

\* Lines 189-194, 219-225: the cached entry is idle but no longer reusable; it
\* is closed and evicted, and the call connects a socket to pool.
AcquireStale(c, sid) ==
    /\ PoolFrame
    /\ NextNew(c)
    /\ cache[sid] # NoEntry
    /\ ~CanReuse(cache[sid])
    /\ ~busy[cache[sid]]
    /\ LET cached == cache[sid] IN
          /\ idleTimer' = [idleTimer EXCEPT ![cached] = FALSE]
          /\ timerLive' = [timerLive EXCEPT ![cached] = FALSE]
          /\ closed' = closeWebSocketSilently(closed, cached)
          /\ readyState' = [readyState EXCEPT
                               ![cached] = SocketCloseState(readyState[cached]),
                               ![c] = SocketStateAtConstruction]
          /\ lastOp' = Op("acquire", c, sid, "omitted", Undef, KeptFor(sid), cached, cached)
    /\ cache' = CacheDelete(cache, sid)
    /\ pc' = [pc EXCEPT ![c] = "connecting"]
    /\ callSid' = [callSid EXCEPT ![c] = sid]
    /\ branch' = [branch EXCEPT ![c] = "fresh"]
    /\ lastKept' = [lastKept EXCEPT ![sid] = NoEntry]
    /\ UNCHANGED <<busy, sock>>

\* Lines 189-190, 225: nothing cached under sid; connect a socket to pool.
AcquireMiss(c, sid) ==
    /\ PoolFrame
    /\ NextNew(c)
    /\ cache[sid] = NoEntry
    /\ readyState' = [readyState EXCEPT ![c] = SocketStateAtConstruction]
    /\ pc' = [pc EXCEPT ![c] = "connecting"]
    /\ callSid' = [callSid EXCEPT ![c] = sid]
    /\ branch' = [branch EXCEPT ![c] = "fresh"]
    /\ lastKept' = [lastKept EXCEPT ![sid] = NoEntry]
    /\ lastOp' = Op("acquire", c, sid, "omitted", Undef, KeptFor(sid), NoEntry, NoEntry)
    /\ UNCHANGED <<cache, busy, idleTimer, timerLive, closed, sock>>

\* The open event settles connectWebSocket (lines 129-134) and the awaiting
\* acquireWebSocket continues to its return: lines 177, 212 or 226-228.
ConnectResolve(c) ==
    /\ PoolFrame
    /\ pc[c] = "connecting"
    /\ readyState' = [readyState EXCEPT ![c] = IF @ = Undef THEN Undef ELSE OPEN]
    /\ pc' = [pc EXCEPT ![c] = "held"]
    /\ sock' = [sock EXCEPT ![c] = c]
    /\ IF branch[c] = "fresh"
       THEN /\ busy' = [busy EXCEPT ![c] = TRUE]
            /\ cache' = [cache EXCEPT ![callSid[c]] = c]
       ELSE UNCHANGED <<busy, cache>>
    /\ lastOp' = Op("open", NoEntry, NoSession, "omitted", Undef, NoEntry, NoEntry, NoEntry)
    /\ UNCHANGED <<idleTimer, timerLive, closed, callSid, branch, lastKept>>

\* An error or close event settles connectWebSocket first (lines 135-146):
\* the await throws and acquireWebSocket rejects without touching the cache.
ConnectReject(c) ==
    /\ PoolFrame
    /\ pc[c] = "connecting"
    /\ readyState' = [readyState EXCEPT ![c] = IF @ = Undef THEN Undef ELSE CLOSED]
    /\ pc' = [pc EXCEPT ![c] = "failed"]
    /\ lastOp' = Op("reject", NoEntry, NoSession, "omitted", Undef, NoEntry, NoEntry, NoEntry)
    /\ UNCHANGED <<cache, busy, idleTimer, timerLive, closed, callSid, branch, sock,
                   lastKept>>

\* ------------------------------------------------------------------ release
\* scheduleSessionWebSocketExpiry(sessionId, entry), lines 74-77 and 81: any
\* earlier timer of the entry is cleared and a new one is armed.
ScheduleExpiryNotArmed(e) ==
    /\ idleTimer' = [idleTimer EXCEPT ![e] = TRUE]
    /\ UNCHANGED timerLive

ScheduleExpiry(e) ==
    /\ idleTimer' = [idleTimer EXCEPT ![e] = TRUE]
    /\ timerLive' = [timerLive EXCEPT ![e] = TRUE]

\* Line 202: the reuse-branch release deletes whatever is stored under sid.
ReuseReleaseCache(ch, sid, e) == CacheDelete(ch, sid)

\* Lines 234-236: the fresh-entry release deletes only its own entry.
FreshReleaseCache(ch, sid, e) == IF ch[sid] = e THEN CacheDelete(ch, sid) ELSE ch

\* Lines 179-185 (no session id) and 214-216 (overflow): release closes the
\* socket, whatever the keep hint.
ReleaseUnpooled(c, keep) ==
    /\ PoolFrame
    /\ Held(c)
    /\ branch[c] \in {"nosession", "overflow"}
    /\ IF branch[c] = "overflow" \/ NoSessionReleaseCloses(keep)
       THEN /\ closed' = closeWebSocketSilently(closed, sock[c])
            /\ readyState' = [readyState EXCEPT ![sock[c]] = SocketCloseState(@)]
            /\ lastOp' = Op("release", c, callSid[c], keep, readyState[sock[c]],
                            NoEntry, NoEntry, sock[c])
       ELSE /\ UNCHANGED <<closed, readyState>>
            /\ lastOp' = Op("release", c, callSid[c], keep, readyState[sock[c]],
                            NoEntry, NoEntry, NoEntry)
    /\ pc' = [pc EXCEPT ![c] = "released"]
    /\ UNCHANGED <<cache, busy, idleTimer, timerLive, callSid, branch, sock, lastKept>>

\* Lines 199-207: release of a handle that reused the cached entry sock[c].
ReleaseReuse(c, keep) ==
    /\ PoolFrame
    /\ Held(c)
    /\ branch[c] = "reuse"
    /\ LET cached == sock[c]
           sid == callSid[c]
       IN IF ReleaseCloses(keep, readyState[cached])
          THEN /\ closed' = closeWebSocketSilently(closed, cached)
               /\ readyState' = [readyState EXCEPT ![cached] = SocketCloseState(@)]
               /\ cache' = ReuseReleaseCache(cache, sid, cached)
               /\ lastOp' = Op("release", c, sid, keep, readyState[cached], NoEntry,
                               cache[sid], cached)
               /\ UNCHANGED <<busy, idleTimer, timerLive, lastKept>>
          ELSE /\ busy' = [busy EXCEPT ![cached] = FALSE]
               /\ ScheduleExpiry(cached)
               /\ lastKept' = [lastKept EXCEPT ![sid] = cached]
               /\ lastOp' = Op("release", c, sid, keep, readyState[cached], NoEntry,
                               NoEntry, NoEntry)
               /\ UNCHANGED <<closed, readyState, cache>>
    /\ pc' = [pc EXCEPT ![c] = "released"]
    /\ UNCHANGED <<callSid, branch, sock>>

\* Lines 230-241: release of a handle whose call created the entry c.
ReleaseFresh(c, keep) ==
    /\ PoolFrame
    /\ Held(c)
    /\ branch[c] = "fresh"
    /\ LET entry == sock[c]
           sid == callSid[c]
       IN IF ReleaseCloses(keep, readyState[entry])
          THEN /\ closed' = closeWebSocketSilently(closed, entry)
               /\ readyState' = [readyState EXCEPT ![entry] = SocketCloseState(@)]
               /\ timerLive' = [timerLive EXCEPT ![entry] = FALSE]
               /\ cache' = FreshReleaseCache(cache, sid, entry)
               /\ lastOp' = Op("release", c, sid, keep, readyState[entry], NoEntry,
                               IF cache'[sid] # cache[sid] THEN cache[sid] ELSE NoEntry,
                               entry)
               /\ UNCHANGED <<busy, idleTimer, lastKept>>
          ELSE /\ busy' = [busy EXCEPT ![entry] = FALSE]
               /\ ScheduleExpiry(entry)
               /\ lastKept' = [lastKept EXCEPT ![sid] = entry]
               /\ lastOp' = Op("release", c, sid, keep, readyState[entry], NoEntry,
                               NoEntry, NoEntry)
               /\ UNCHANGED <<closed, readyState, cache>>
    /\ pc' = [pc EXCEPT ![c] = "released"]
    /\ UNCHANGED <<callSid, branch, sock>>

\* -------------------------------------------------------------- idle expiry
\* Line 80: the timer callback deletes whatever is stored under its sessionId.
TimerCache(ch, sid, e) == CacheDelete(ch, sid)

\* Lines 77-81: the callback armed by scheduleSessionWebSocketExpiry(sid, e)
\* runs after SESSION_WEBSOCKET_CACHE_TTL_MS.  sid is the session id of the
\* call that created e: an entry is only ever stored and released under it.
TimerFire(e) ==
    /\ PoolFrame
    /\ timerLive[e]
    /\ timerLive' = [timerLive EXCEPT ![e] = FALSE]
    /\ LET sid == callSid[e] IN
       IF busy[e]
       THEN /\ lastOp' = Op("timer", e, sid, "omitted", readyState[e], NoEntry, NoEntry,
                            NoEntry)
            /\ UNCHANGED <<closed, readyState, cache, lastKept>>
       ELSE /\ closed' = closeWebSocketSilently(closed, e)
            /\ readyState' = [readyState EXCEPT ![e] = SocketCloseState(@)]
            /\ cache' = TimerCache(cache, sid, e)
            /\ lastKept' = [lastKept EXCEPT ![sid] = IF @ = e THEN NoEntry ELSE @]
            /\ lastOp' = Op("timer", e, sid, "omitted", readyState[e], NoEntry,
                            IF cache'[sid] # cache[sid] THEN cache[sid] ELSE NoEntry, e)
    /\ UNCHANGED <<busy, idleTimer, pc, callSid, branch, sock>>

\* -------------------------------------------------------------- environment
\* The peer or the network closes an open transport that exposes readyState.
\* Only pooled sockets are followed: the pool never reads the readyState of a
\* socket it opened for a call without session id or for an overflow call.
SocketDrop(s) ==
    /\ PoolFrame
    /\ branch[s] = "fresh"
    /\ readyState[s] = OPEN
    /\ readyState' = [readyState EXCEPT ![s] = CLOSED]
    /\ lastOp' = Op("drop", NoEntry, NoSession, "omitted", Undef, NoEntry, NoEntry, NoEntry)
    /\ UNCHANGED <<cache, busy, idleTimer, timerLive, closed, pc, callSid, branch, sock,
                   lastKept>>

\* ---------------------------------------------------------------- the pool
Next ==
    \/ \E c \in Calls : AcquireNoSession(c)
    \/ \E c \in Calls, sid \in Sessions : AcquireReuse(c, sid)
    \/ \E c \in Calls, sid \in Sessions : AcquireOverflow(c, sid)
    \/ \E c \in Calls, sid \in Sessions : AcquireStale(c, sid)
    \/ \E c \in Calls, sid \in Sessions : AcquireMiss(c, sid)
    \/ \E c \in Calls : ConnectResolve(c)
    \/ \E c \in Calls : ConnectReject(c)
    \/ \E c \in Calls, keep \in KeepOpts : ReleaseUnpooled(c, keep)
    \/ \E c \in Calls, keep \in KeepOpts : ReleaseReuse(c, keep)
    \/ \E c \in Calls, keep \in KeepOpts : ReleaseFresh(c, keep)
    \/ \E e \in Calls : TimerFire(e)
    \/ \E s \in Calls : SocketDrop(s)

Spec == Init /\ [][Next]_vars

\* ======================================================== claims on the pool
\* A handle is backed by a cache entry when it came from the reuse branch or
\* from the branch that creates an entry.
Pooled(c) == branch[c] \in {"reuse", "fresh"}

\* The release recorded in lastOp was called on a handle acquired with a
\* session id.
SessionRelease == lastOp.op = "release" /\ lastOp.sid \in Sessions

\* C1: mutual exclusion on a transport.  No transport is held by two
\* unreleased handles at once; in particular acquireWebSocket never hands out
\* a transport that an unreleased handle still holds.
C1_MutualExclusion ==
    \A c1, c2 \in Calls :
        (Held(c1) /\ Held(c2) /\ c1 # c2) => sock[c1] # sock[c2]

\* C1 witness: a transport that has been handed out twice (released by one
\* handle, held by a later one) while another call of the session is held too.
C1_Witness ==
    \E c1, c2, c3 \in Calls :
        /\ c1 # c2 /\ sock[c1] = sock[c2] /\ sock[c1] # NoEntry
        /\ pc[c1] = "released" /\ Held(c2)
        /\ Held(c3) /\ c3 # c2 /\ callSid[c3] = callSid[c2]

\* C2: per session id, at most one unreleased handle at a time is backed by a
\* pooled entry; every other concurrent acquisition for the id is unpooled.
C2_OnePooledHandlePerSession ==
    \A c1, c2 \in Calls :
        (Held(c1) /\ Held(c2) /\ c1 # c2 /\ callSid[c1] \in Sessions
            /\ callSid[c1] = callSid[c2])
        => ~(Pooled(c1) /\ Pooled(c2))

\* C3: after release({keep:true}) of a session handle whose transport is
\* reusable, and until that entry's idle timer fires, the next acquireWebSocket
\* for the session returns that same transport without connecting.
C3_KeptEntryIsReacquired ==
    (lastOp.op = "acquire" /\ lastOp.kept # NoEntry)
    => (pc[lastOp.call] = "held" /\ sock[lastOp.call] = lastOp.kept)

\* C4 as claimed: release() with keep omitted on a pooled handle whose
\* transport is reusable keeps it, i.e. the transport is not closed and its
\* entry stays cached, idle, with the expiry timer armed.
C4_DefaultIsKeep ==
    (SessionRelease /\ lastOp.keep = "omitted" /\ Pooled(lastOp.call)
        /\ isWebSocketReusable(lastOp.rs))
    => LET s == sock[lastOp.call] IN
          /\ ~closed[s]
          /\ cache[lastOp.sid] = s
          /\ ~busy[s]
          /\ timerLive[s]

\* C4 amended: release() with keep omitted on a handle acquired with a session
\* id acts as release({keep:false}) does: the transport is closed, no cache
\* entry has it as socket, and no expiry timer is armed for it.
C4_DefaultIsClose ==
    (SessionRelease /\ lastOp.keep = "omitted")
    => LET s == sock[lastOp.call] IN
          /\ closed[s]
          /\ \A sid \in Sessions : cache[sid] # s
          /\ ~timerLive[s]

\* C4 witness: release() with keep omitted acted on a pooled handle whose
\* transport was reusable.
C4_Witness ==
    /\ SessionRelease /\ lastOp.keep = "omitted" /\ Pooled(lastOp.call)
    /\ isWebSocketReusable(lastOp.rs)
    /\ closed[sock[lastOp.call]]

\* C5: release({keep:false}), or any release on a transport whose readyState
\* is a number other than 1, of a handle acquired with a session id closes the
\* transport and leaves no cache entry with that transport as socket.
C5_CloseReleaseEvicts ==
    (SessionRelease /\ Pooled(lastOp.call)
        /\ (lastOp.keep = "false" \/ (lastOp.rs # Undef /\ lastOp.rs # OPEN)))
    => LET s == sock[lastOp.call] IN
          /\ closed[s]
          /\ \A sid \in Sessions : cache[sid] # s

\* C5 witness: release({keep:true}) acted on a pooled handle whose transport
\* reported CLOSED, and the transport was closed and evicted.
C5_Witness ==
    /\ SessionRelease /\ Pooled(lastOp.call)
    /\ lastOp.keep = "true" /\ lastOp.rs = CLOSED
    /\ closed[sock[lastOp.call]]
    /\ lastOp.evicted = sock[lastOp.call]

\* C6: an idle-expiry timer never closes a transport that an unreleased handle
\* holds and never removes the cache entry of a held transport.
C6_TimerSparesHeld ==
    lastOp.op = "timer"
    => \A c \in Calls :
          Held(c) => (lastOp.closedSock # sock[c] /\ lastOp.evicted # sock[c])

\* C7: acquireWebSocket without session id always connects a fresh socket and
\* leaves the cache, the busy flags and the idle timers as they are; its
\* release closes the socket for every keep hint and changes none of them.
PoolUntouched ==
    /\ cache' = cache
    /\ busy' = busy
    /\ idleTimer' = idleTimer
    /\ timerLive' = timerLive

C7_NoSessionStep ==
    \A c \in Calls :
        /\ (pc[c] = "new" /\ pc'[c] # "new" /\ callSid'[c] = NoSession)
              => (pc'[c] = "connecting" /\ PoolUntouched)
        /\ (pc[c] = "connecting" /\ branch[c] = "nosession" /\ pc'[c] = "held")
              => (sock'[c] = c /\ (\A d \in Calls : sock[d] # c) /\ PoolUntouched)
        /\ (Held(c) /\ branch[c] = "nosession" /\ pc'[c] # pc[c])
              => (pc'[c] = "released" /\ closed'[sock[c]] /\ PoolUntouched)

C7_NoSessionIsUnpooled == [][C7_NoSessionStep]_vars

\* C7 witness: release({keep:true}) of a handle acquired without session id
\* closed its socket while an idle entry with an armed timer sat in the cache.
C7_Witness ==
    /\ lastOp.op = "release" /\ lastOp.sid = NoSession /\ lastOp.keep = "true"
    /\ closed[sock[lastOp.call]]
    /\ \E sid \in Sessions : cache[sid] # NoEntry /\ timerLive[cache[sid]]

\* C17: entry invariant between operations.  A busy entry has no pending idle
\* timer, and an entry that is in the cache and not busy has one.
C17_EntryInvariant ==
    /\ \A e \in Calls : busy[e] => ~timerLive[e]
    /\ \A sid \in Sessions :
          (cache[sid] # NoEntry /\ ~busy[cache[sid]]) => timerLive[cache[sid]]

\* C17 witness: an entry that was created, kept, reused and kept again sits
\* idle in the cache with its timer armed while another entry is busy.
C17_Witness ==
    \E e, c, b \in Calls :
        /\ callSid[e] \in Sessions /\ cache[callSid[e]] = e
        /\ ~busy[e] /\ timerLive[e]
        /\ c # e /\ sock[c] = e /\ pc[c] = "released"
        /\ b # e /\ busy[b]

\* C18: when an idle-expiry timer fires and an entry leaves the cache, it is
\* the entry the timer was armed for, and that entry is not busy.
C18_TimerRemovesOwnEntry ==
    (lastOp.op = "timer" /\ lastOp.evicted # NoEntry)
    => (lastOp.evicted = lastOp.call /\ ~busy[lastOp.evicted])

\* ============================================================ parseWebSocket
\* The type field of a parsed message; "delta" stands for every type that is
\* not a completion marker.
Types == {"delta", "response.completed", "response.done"}

\* event.data of a message event: its kind (string, ArrayBuffer, view,
\* blob-like, anything else), whether its text parses as a JSON object, and
\* the type of that object.
TextKinds == {"string", "buffer", "view", "blob"}
FrameAlphabet ==
    [kind : TextKinds, json : {TRUE}, type : Types]
    \cup [kind : TextKinds, json : {FALSE}, type : {""}]
    \cup {[kind |-> "other", json |-> FALSE, type |-> ""]}

\* Line 291: type === "response.completed" || type === "response.done"
IsCompletionType(type) == type = "response.completed" \/ type = "response.done"

WellFormedAnyText(f) == f.kind \in TextKinds

\* A frame that onMessage pushes on the queue: decodeWebSocketData returns
\* its text (lines 250-262, null at 263 for other kinds) and JSON.parse
\* accepts it.
WellFormed(f) == f.kind \in TextKinds /\ f.json

\* decodeWebSocketData awaits only for a blob-like payload (line 260); for
\* every other kind the async function returns without suspending.
DecodesWithoutIO(f) == f.kind # "blob"

\* The await at line 286 resumes after a fixed number of microtask turns when
\* the decode did no I/O, and after arrayBuffer() settles otherwise: a decode
\* never resumes before an I/O-free decode that started earlier.
CanFinishDecode(i) ==
    /\ i \in inflight
    /\ \A j \in inflight : j < i => ~DecodesWithoutIO(frames[j])

\* No continuation of an earlier task is pending: the runtime dispatches the
\* close and error events of a transport in tasks of their own.
Quiescent ==
    /\ ~woken
    /\ \A i \in inflight : ~DecodesWithoutIO(frames[i])

ParserFrame == UNCHANGED <<poolVars, connVars>>

\* wake(), lines 276-281.
Wake ==
    IF pending
    THEN pending' = FALSE /\ woken' = TRUE
    ELSE UNCHANGED <<pending, woken>>

AfterLoopIgnoresFailure(f, saw) == IF ~saw THEN "noCompletion" ELSE "none"
AfterLoopCompletionFirst(f, saw) == IF ~saw THEN "noCompletion" ELSE f

\* Lines 346-351: what the generator throws after the loop ("none": it ends).
AfterLoop(f, saw) ==
    IF f # "none" THEN f ELSE IF ~saw THEN "noCompletion" ELSE "none"

RunLoopDoneFirst ==
    IF aborted
    THEN /\ gen' = "threw" /\ thrown' = "aborted"
         /\ listening' = FALSE /\ pending' = FALSE
         /\ UNCHANGED <<queue, yielded>>
    ELSE IF done
    THEN /\ thrown' = AfterLoop(failed, sawCompletion)
         /\ gen' = IF thrown' = "none" THEN "ended" ELSE "threw"
         /\ listening' = FALSE /\ pending' = FALSE
         /\ UNCHANGED <<queue, yielded>>
    ELSE IF queue # <<>>
    THEN /\ yielded' = Append(yielded, Head(queue))
         /\ queue' = Tail(queue)
         /\ gen' = "yielded" /\ pending' = FALSE
         /\ UNCHANGED <<thrown, listening>>
    ELSE /\ pending' = TRUE /\ gen' = "awaiting"
         /\ UNCHANGED <<queue, yielded, thrown, listening>>

\* Lines 332-357 from the top of the loop to the next suspension: the abort
\* check, one yield, the exit when done, or the await of a wake-up.  The
\* finally block removes the listeners whenever the generator finishes.
RunLoop ==
    IF aborted
    THEN /\ gen' = "threw" /\ thrown' = "aborted"
         /\ listening' = FALSE /\ pending' = FALSE
         /\ UNCHANGED <<queue, yielded>>
    ELSE IF queue # <<>>
    THEN /\ yielded' = Append(yielded, Head(queue))
         /\ queue' = Tail(queue)
         /\ gen' = "yielded" /\ pending' = FALSE
         /\ UNCHANGED <<thrown, listening>>
    ELSE IF done
    THEN /\ thrown' = AfterLoop(failed, sawCompletion)
         /\ gen' = IF thrown' = "none" THEN "ended" ELSE "threw"
         /\ listening' = FALSE /\ pending' = FALSE
         /\ UNCHANGED <<queue, yielded>>
    ELSE /\ pending' = TRUE /\ gen' = "awaiting"
         /\ UNCHANGED <<queue, yielded, thrown, listening>>

\* The consumer calls next().  The first call runs lines 326-329 (the
\* listeners are registered) and enters the loop; a later one resumes the
\* generator after its yield (line 338, continue).
ConsumerNext ==
    /\ ParserFrame
    /\ gen \in {"start", "yielded"}
    /\ IF gen = "start" /\ ~aborted
       THEN \* nothing can be queued and done is false before the listeners exist
            /\ pending' = TRUE /\ gen' = "awaiting" /\ listening' = TRUE
            /\ UNCHANGED <<queue, yielded, thrown>>
       ELSE RunLoop
    /\ UNCHANGED <<frames, inflight, woken, done, failed, sawCompletion, aborted,
                   errorSeen, closeSeen>>
    /\ UNCHANGED <<closedUnfinished, bufferedAtFailure>>

\* The consumer leaves the sequence at a yield (return()): the finally block
\* at lines 352-357 removes the listeners.
ConsumerReturn ==
    /\ ParserFrame
    /\ gen = "yielded"
    /\ gen' = "returned"
    /\ listening' = FALSE
    /\ UNCHANGED <<frames, inflight, queue, yielded, pending, woken, done, failed,
                   sawCompletion, thrown, aborted, errorSeen, closeSeen>>
    /\ UNCHANGED <<closedUnfinished, bufferedAtFailure>>

\* The promise awaited at lines 341-343 was resolved by wake(); the loop
\* continues at its top.
GenResume ==
    /\ ParserFrame
    /\ gen = "awaiting" /\ woken
    /\ woken' = FALSE
    /\ RunLoop
    /\ UNCHANGED <<frames, inflight, done, failed, sawCompletion, aborted, errorSeen,
                   closeSeen>>
    /\ UNCHANGED <<closedUnfinished, bufferedAtFailure>>

\* onMessage, lines 283-286: the event has data; the async closure suspends
\* at the await of decodeWebSocketData.
OnMessage(f) ==
    /\ ParserFrame
    /\ listening /\ ~closeSeen
    /\ Len(frames) < MaxFrames
    /\ frames' = Append(frames, f)
    /\ inflight' = inflight \cup {Len(frames) + 1}
    /\ UNCHANGED <<queue, yielded, pending, woken, done, failed, sawCompletion, gen,
                   thrown, listening, aborted, errorSeen, closeSeen>>
    /\ UNCHANGED <<closedUnfinished, bufferedAtFailure>>

\* onMessage, lines 287-297: the decode of frame i has settled.
DecodeDone(i) ==
    /\ ParserFrame
    /\ CanFinishDecode(i)
    /\ inflight' = inflight \ {i}
    /\ IF WellFormed(frames[i])
       THEN /\ IF IsCompletionType(frames[i].type)
               THEN sawCompletion' = TRUE /\ done' = TRUE
               ELSE UNCHANGED <<sawCompletion, done>>
            /\ queue' = Append(queue, i)
            /\ Wake
       ELSE UNCHANGED <<sawCompletion, done, queue, pending, woken>>
    /\ UNCHANGED <<frames, yielded, failed, gen, thrown, listening, aborted, errorSeen,
                   closeSeen>>
    /\ UNCHANGED <<closedUnfinished, bufferedAtFailure>>

\* onError, lines 301-305.
OnError ==
    /\ ParserFrame
    /\ listening /\ ~errorSeen /\ ~closeSeen
    /\ Quiescent
    /\ errorSeen' = TRUE
    /\ failed' = "error"
    /\ done' = TRUE
    /\ Wake
    /\ UNCHANGED <<frames, inflight, queue, yielded, sawCompletion, gen, thrown,
                   listening, aborted, closeSeen>>
    /\ bufferedAtFailure' = {queue[k] : k \in 1..Len(queue)}
    /\ UNCHANGED closedUnfinished

\* onClose, lines 307-318.
OnClose ==
    /\ ParserFrame
    /\ listening /\ ~closeSeen
    /\ Quiescent
    /\ closeSeen' = TRUE
    /\ IF sawCompletion
       THEN UNCHANGED failed
       ELSE failed' = IF failed = "none" THEN "close" ELSE failed
    /\ done' = TRUE
    /\ Wake
    /\ UNCHANGED <<frames, inflight, queue, yielded, sawCompletion, gen, thrown,
                   listening, aborted, errorSeen>>
    /\ closedUnfinished' = ~sawCompletion
    /\ bufferedAtFailure' = IF ~sawCompletion /\ failed = "none"
                            THEN {queue[k] : k \in 1..Len(queue)}
                            ELSE bufferedAtFailure

AbortWithoutWake ==
    /\ ParserFrame
    /\ ~aborted
    /\ gen \in {"start", "awaiting", "yielded"}
    /\ aborted' = TRUE
    /\ IF listening
       THEN failed' = "aborted" /\ done' = TRUE
       ELSE UNCHANGED <<failed, done>>
    /\ bufferedAtFailure' = IF listening THEN {queue[k] : k \in 1..Len(queue)}
                            ELSE bufferedAtFailure
    /\ UNCHANGED <<frames, inflight, queue, yielded, sawCompletion, gen, thrown,
                   listening, errorSeen, closeSeen, pending, woken, closedUnfinished>>

\* The signal aborts; onAbort (lines 320-324) runs if it is registered.
Abort ==
    /\ ParserFrame
    /\ ~aborted
    /\ gen \in {"start", "awaiting", "yielded"}
    /\ aborted' = TRUE
    /\ IF listening
       THEN failed' = "aborted" /\ done' = TRUE /\ Wake
       ELSE UNCHANGED <<failed, done, pending, woken>>
    /\ UNCHANGED <<frames, inflight, queue, yielded, sawCompletion, gen, thrown,
                   listening, errorSeen, closeSeen>>
    /\ bufferedAtFailure' = IF listening THEN {queue[k] : k \in 1..Len(queue)}
                            ELSE bufferedAtFailure
    /\ UNCHANGED closedUnfinished

ParseNext ==
    \/ ConsumerNext
    \/ ConsumerReturn
    \/ GenResume
    \/ \E f \in FrameAlphabet : OnMessage(f)
    \/ \E i \in 1..MaxFrames : DecodeDone(i)
    \/ OnError
    \/ OnClose
    \/ Abort

ParseSpec == ParseInit /\ [][ParseNext]_vars

\* ========================================================= connectWebSocket
ConnEvents == {"open", "error", "close", "abort"}

ConnFrame == UNCHANGED <<poolVars, parseVars>>

\* The arguments and the runtime of one connectWebSocket call.
ConnectInit ==
    /\ PoolInit
    /\ exposesReadyState = TRUE
    /\ ParserInit
    /\ ConnStart
    /\ connCtor \in {"missing", "throws", "ok"}
    /\ connSignal \in {"none", "live", "aborted"}
    /\ closeThrows \in BOOLEAN

\* Lines 109-128 and 162-165: the call up to the return of the promise.
ConnectCall ==
    /\ ConnFrame
    /\ promise = "notCalled"
    /\ IF connCtor = "missing"
       THEN /\ promise' = "rejected" /\ rejection' = "unavailable"
            /\ UNCHANGED connListening
       ELSE IF connCtor = "throws"
       THEN /\ promise' = "rejected" /\ rejection' = "constructor"
            /\ UNCHANGED connListening
       ELSE /\ promise' = "pending" /\ connListening' = TRUE
            /\ UNCHANGED rejection
    /\ UNCHANGED <<connCtor, connSignal, closeThrows, settled, closeCalled, uncaught,
                   fired, firstEvent>>

\* Event ev is dispatched on the socket, or on the signal, of a call that
\* constructed a socket.
Dispatched(ev) ==
    /\ promise # "notCalled"
    /\ connCtor = "ok"
    /\ ev \in ConnEvents
    /\ ev \notin fired
    /\ fired' = fired \cup {ev}
    /\ firstEvent' = IF firstEvent = "none" THEN ev ELSE firstEvent

\* A listener runs only while it is registered and settled is false.
Runs == connListening /\ ~settled

\* settled = true; cleanup(), lines 155-160.
SettleAndCleanup ==
    /\ settled' = TRUE
    /\ connListening' = FALSE

\* onOpen, lines 129-134.
ConnectOnOpen ==
    /\ ConnFrame
    /\ Dispatched("open")
    /\ IF Runs
       THEN /\ SettleAndCleanup
            /\ promise' = "resolved"
            /\ UNCHANGED rejection
       ELSE UNCHANGED <<settled, connListening, promise, rejection>>
    /\ UNCHANGED <<connCtor, connSignal, closeThrows, closeCalled, uncaught>>

\* onError, lines 135-140.
ConnectOnError ==
    /\ ConnFrame
    /\ Dispatched("error")
    /\ IF Runs
       THEN /\ SettleAndCleanup
            /\ promise' = "rejected" /\ rejection' = "error"
       ELSE UNCHANGED <<settled, connListening, promise, rejection>>
    /\ UNCHANGED <<connCtor, connSignal, closeThrows, closeCalled, uncaught>>

\* onClose, lines 141-146.
ConnectOnClose ==
    /\ ConnFrame
    /\ Dispatched("close")
    /\ IF Runs
       THEN /\ SettleAndCleanup
            /\ promise' = "rejected" /\ rejection' = "close"
       ELSE UNCHANGED <<settled, connListening, promise, rejection>>
    /\ UNCHANGED <<connCtor, connSignal, closeThrows, closeCalled, uncaught>>

\* The signal aborts after the call; onAbort, lines 147-153: socket.close is
\* called outside any try, so when it throws line 152 is not reached.
ConnectOnAbort ==
    /\ ConnFrame
    /\ connSignal = "live"
    /\ Dispatched("abort")
    /\ connSignal' = "aborted"
    /\ IF Runs
       THEN /\ SettleAndCleanup
            /\ closeCalled' = TRUE
            /\ IF closeThrows
               THEN /\ uncaught' = TRUE
                    /\ UNCHANGED <<promise, rejection>>
               ELSE /\ promise' = "rejected" /\ rejection' = "aborted"
                    /\ UNCHANGED uncaught
       ELSE UNCHANGED <<settled, connListening, promise, rejection, closeCalled, uncaught>>
    /\ UNCHANGED <<connCtor, closeThrows>>

ConnectNext ==
    \/ ConnectCall
    \/ ConnectOnOpen
    \/ ConnectOnError
    \/ ConnectOnClose
    \/ ConnectOnAbort

ConnectSpec == ConnectInit /\ [][ConnectNext]_vars

\* ================================================ claims on connectWebSocket
\* C15: connectWebSocket settles with the outcome of the first event: open
\* resolves, error and close reject, abort closes the socket and rejects with
\* the aborted error; later events change neither the outcome nor the socket.
C15_FirstEventWins ==
    /\ firstEvent = "open" => (promise = "resolved" /\ ~closeCalled)
    /\ firstEvent = "error"
          => (promise = "rejected" /\ rejection = "error" /\ ~closeCalled)
    /\ firstEvent = "close"
          => (promise = "rejected" /\ rejection = "close" /\ ~closeCalled)
    /\ firstEvent = "abort"
          => (promise = "rejected" /\ rejection = "aborted" /\ closeCalled)

\* C16: when the abort listener closes the socket and close() throws, the
\* exception is swallowed and the promise still rejects with the aborted error.
C16_AbortRejectsWhenCloseThrows ==
    (closeCalled /\ closeThrows)
    => (~uncaught /\ promise = "rejected" /\ rejection = "aborted")

\* The signal was already aborted when connectWebSocket was called.
AbortedBeforeCall == connSignal = "aborted" /\ "abort" \notin fired

\* C19: a call whose signal was already aborted never resolves with a socket.
C19_PreAbortedNeverResolves ==
    AbortedBeforeCall => promise # "resolved"

\* ================================================== claims on parseWebSocket
\* The frames that are well formed and carry a completion marker.
CompletionFrames ==
    {i \in 1..Len(frames) : WellFormed(frames[i]) /\ IsCompletionType(frames[i].type)}

\* C8: messages are yielded in the order their frames arrived.
C8_YieldedInArrivalOrder ==
    \A k, l \in 1..Len(yielded) : k < l => yielded[k] < yielded[l]

\* C9: once a completion frame has been received the sequence terminates
\* after it: the completion message is the last message yielded, so no frame
\* that arrived after the completion frame is yielded after it.
C9_CompletionIsLast ==
    \A k, l \in 1..Len(yielded) :
        (k < l /\ yielded[k] \in CompletionFrames) => yielded[l] < yielded[k]

\* C10: when a completion frame arrived and a close event followed it (and
\* no error event or abort occurred), the sequence does not fail, and when it
\* has ended the completion message was yielded.
C10_CloseAfterCompletionIsClean ==
    (closeSeen /\ CompletionFrames # {} /\ ~errorSeen /\ ~aborted)
    => /\ gen # "threw"
       /\ gen = "ended" => \E k \in 1..Len(yielded) : yielded[k] \in CompletionFrames

\* The frames the generator has yielded.
YieldedFrames == {yielded[k] : k \in 1..Len(yielded)}

C12_FailureAfterBuffered ==
    gen = "threw" => bufferedAtFailure \subseteq YieldedFrames

\* C12 amended: a failure captured from a transport error or a premature
\* close is thrown only after every message buffered at its capture has been
\* yielded (an abort is thrown at the top of the loop, before the queue).
C12_TransportFailureAfterBuffered ==
    (gen = "threw" /\ thrown \in {"error", "close"})
    => bufferedAtFailure \subseteq YieldedFrames

\* C12 witness: an error event was captured with messages buffered and the
\* generator has thrown it.
C12_Witness ==
    /\ gen = "threw" /\ thrown = "error"
    /\ bufferedAtFailure # {}

\* C13: once the signal has aborted while the listeners are registered, the
\* generator is scheduled to run if it was awaiting, and its next step throws
\* "Request was aborted" (or the consumer returns) with no listener left.
C13_AbortStep ==
    /\ (aborted' /\ listening' /\ gen' = "awaiting") => woken'
    /\ (aborted /\ listening /\ gen' # gen)
          => /\ ~listening'
             /\ \/ gen' = "threw" /\ thrown' = "aborted"
                \/ gen' = "returned"

C13_AbortEndsSequence == [][C13_AbortStep]_vars

\* C13 witness: the signal aborted mid-stream, after a message was yielded,
\* and the generator threw the abort error and removed its listeners.
C13_Witness ==
    /\ aborted /\ yielded # <<>>
    /\ gen = "threw" /\ thrown = "aborted" /\ ~listening

\* C14: the decode of a frame that yields no text or no JSON changes neither
\* the queue nor done, failed, sawCompletion, nor the generator.
C14_MalformedStep ==
    \A i \in inflight :
        (i \notin inflight' /\ (frames[i].kind = "other" \/ ~frames[i].json))
        => UNCHANGED <<queue, done, failed, sawCompletion, gen, thrown, pending,
                       woken, listening, yielded>>

C14_MalformedIsSkipped == [][C14_MalformedStep]_vars

\* C14 witness: a malformed frame was handled and a well-formed frame that
\* arrived after it has been yielded.
C14_Witness ==
    /\ Len(frames) >= 2
    /\ (frames[1].kind = "other" \/ ~frames[1].json)
    /\ 1 \notin inflight
    /\ 2 \in YieldedFrames

\* C20: done implies a captured failure or sawCompletion, so the generator
\* never throws "WebSocket stream closed before response.completed".
C20_DoneHasCause ==
    /\ done => (failed # "none" \/ sawCompletion)
    /\ thrown # "noCompletion"

\* C20 witness: the loop has exited through done, normally and by a failure.
C20_Witness ==
    /\ done /\ closeSeen
    /\ gen \in {"ended", "threw"}

====
